---------------------------- MODULE Spec2Model ----------------------------
(***************************************************************************)
(* A model of the sequential Bayesian estimator of the course notes        *)
(* (class BayesianEstimation) and of the array arithmetic it is built on,  *)
(* of the rabbit problem solved with it, step by step and with the class,  *)
(* of its helper get_quantile and its method plot, of                      *)
(* get_confidence_interval, and of the estimate of pi by random draws.     *)
(*                                                                         *)
(* The estimator's arrays are numpy float64 arrays.  The arithmetic is     *)
(* modelled as binary floating point with round-to-nearest, ties-to-even,  *)
(* with a significand of Prec bits instead of 53, with the not-a-number    *)
(* and the two infinite values, with an unbounded exponent range (no       *)
(* overflow or underflow to subnormals happens on the values used here)    *)
(* and with a single zero (the sign of a zero is observable only through   *)
(* a division of a nonzero value by a negative zero, and the only divisor  *)
(* in the estimator is a sum, which is a negative zero only when every     *)
(* dividend is a zero too).                                                *)
(***************************************************************************)
EXTENDS Integers, Sequences, FiniteSets, TLC

(***************************************************************************)
(* Bounds of the model.                                                    *)
(***************************************************************************)
\* bits of the significand of a floating-point value
Prec == 12
\* the longest hypothesis array, np.arange(1, n + 1) with n <= MaxHyp
MaxHyp == 2
\* the largest number of update calls made on one estimator
MaxUpdates == 2
\* the largest number of in-place assignments the caller makes to arrays
MaxWrites == 1
\* the largest number of samples of a data series
MaxSamples == 32

(***************************************************************************)
(* Floating-point values.  A finite value is m * 2^e with m odd, or m = 0  *)
(* and e = 0, and |m| < 2^Prec: every value has one representation.        *)
(***************************************************************************)
Abs(n) == IF n < 0 THEN -n ELSE n

Sign(n) == IF n < 0 THEN -1 ELSE IF n = 0 THEN 0 ELSE 1

RECURSIVE Pow2(_)
Pow2(n) == IF n <= 0 THEN 1 ELSE 2 * Pow2(n - 1)

\* the number of bits of a natural number: 0 for 0, 1 for 1, 2 for 2 and 3
RECURSIVE BitLen(_)
BitLen(n) == IF n = 0 THEN 0 ELSE 1 + BitLen(n \div 2)

NaN == [k |-> "nan", m |-> 0, e |-> 0]

Inf(s) == [k |-> "inf", m |-> s, e |-> 0]

RECURSIVE Fin(_, _)
Fin(m, e) ==
    IF m = 0 THEN [k |-> "fin", m |-> 0, e |-> 0]
    ELSE IF m % 2 = 0 THEN Fin(m \div 2, e + 1)
    ELSE [k |-> "fin", m |-> m, e |-> e]

Zero == Fin(0, 0)

One == Fin(1, 0)

IsNaN(x) == x.k = "nan"

IsInf(x) == x.k = "inf"

IsFinite(x) == x.k = "fin"

\* m * 2^e rounded to the nearest value of Prec bits, ties to the even one
RoundFloat(m, e) ==
    LET a == Abs(m)
        b == BitLen(a)
    IN  IF b <= Prec THEN Fin(m, e)
        ELSE LET sh   == b - Prec
                 d    == Pow2(sh)
                 q    == a \div d
                 r    == a % d
                 half == d \div 2
                 up   == r > half \/ (r = half /\ q % 2 = 1)
                 q2   == IF up THEN q + 1 ELSE q
             IN  Fin(Sign(m) * q2, e + sh)

\* the position of the leading bit of a nonzero finite value
Top(x) == BitLen(Abs(x.m)) + x.e

\* x * y of two float64 values
Multiply(x, y) ==
    IF IsNaN(x) \/ IsNaN(y) THEN NaN
    ELSE IF IsInf(x) \/ IsInf(y)
         THEN IF x.m = 0 \/ y.m = 0 THEN NaN ELSE Inf(Sign(x.m) * Sign(y.m))
    ELSE RoundFloat(x.m * y.m, x.e + y.e)

\* x / y of two float64 values; a division by zero is no error in numpy
TrueDivide(x, y) ==
    IF IsNaN(x) \/ IsNaN(y) THEN NaN
    ELSE IF IsInf(x)
         THEN IF IsInf(y) THEN NaN
              ELSE Inf(IF y.m < 0 THEN -x.m ELSE x.m)
    ELSE IF IsInf(y) THEN Zero
    ELSE IF y.m = 0
         THEN IF x.m = 0 THEN NaN ELSE Inf(Sign(x.m))
    ELSE IF x.m = 0 THEN Zero
    ELSE LET a   == Abs(x.m)
             b   == Abs(y.m)
             gap == Prec + 2 + BitLen(b) - BitLen(a)
             sh  == IF gap > 0 THEN gap ELSE 0
             n   == a * Pow2(sh)
             q   == n \div b
             r   == n % b
             \* one more bit, set when the quotient is inexact
             qs  == 2 * q + (IF r = 0 THEN 0 ELSE 1)
         IN  RoundFloat(Sign(x.m) * Sign(y.m) * qs, x.e - y.e - sh - 1)

\* x + y of two float64 values
Add(x, y) ==
    IF IsNaN(x) \/ IsNaN(y) THEN NaN
    ELSE IF IsInf(x)
         THEN IF IsInf(y) /\ x.m # y.m THEN NaN ELSE x
    ELSE IF IsInf(y) THEN y
    ELSE IF x.m = 0 THEN y
    ELSE IF y.m = 0 THEN x
    ELSE IF Top(x) - Top(y) >= Prec + 2 THEN x
    ELSE IF Top(y) - Top(x) >= Prec + 2 THEN y
    ELSE LET e == IF x.e < y.e THEN x.e ELSE y.e
         IN  RoundFloat(x.m * Pow2(x.e - e) + y.m * Pow2(y.e - e), e)

\* x < y of two float64 values; false when either is not a number
Less(x, y) ==
    IF IsNaN(x) \/ IsNaN(y) THEN FALSE
    ELSE IF IsInf(x) THEN x.m < 0 /\ ~(IsInf(y) /\ y.m < 0)
    ELSE IF IsInf(y) THEN y.m > 0
    ELSE IF Sign(x.m) # Sign(y.m) THEN Sign(x.m) < Sign(y.m)
    ELSE IF x.m = 0 THEN FALSE
    ELSE IF Top(x) # Top(y)
         THEN IF x.m > 0 THEN Top(x) < Top(y) ELSE Top(x) > Top(y)
    ELSE LET e == IF x.e < y.e THEN x.e ELSE y.e
         IN  x.m * Pow2(x.e - e) < y.m * Pow2(y.e - e)

\* x == y of two float64 values; false when either is not a number
Equal(x, y) == ~IsNaN(x) /\ ~IsNaN(y) /\ x = y

\* x >= y of two float64 values; false when either is not a number
GreaterEqual(x, y) == ~IsNaN(x) /\ ~IsNaN(y) /\ ~Less(x, y)

\* the largest integer whose square is at most n
RECURSIVE ISqrt(_)
ISqrt(n) ==
    IF n < 2 THEN n
    ELSE LET s == 2 * ISqrt(n \div 4)
         IN  IF (s + 1) * (s + 1) <= n THEN s + 1 ELSE s

\* np.sqrt(x) of a float64 value; not a number for a negative value
Sqrt(x) ==
    IF IsNaN(x) THEN NaN
    ELSE IF x.m < 0 THEN NaN
    ELSE IF IsInf(x) THEN x
    ELSE IF x.m = 0 THEN Zero
    ELSE LET gap  == 2 * Prec + 2 - BitLen(x.m)
             sh0  == IF gap > 0 THEN gap ELSE 0
             sh   == IF (x.e - sh0) % 2 = 0 THEN sh0 ELSE sh0 + 1
             n    == x.m * Pow2(sh)
             root == ISqrt(n)
             \* one more bit, set when the root is inexact
             rs   == 2 * root + (IF root * root = n THEN 0 ELSE 1)
         IN  RoundFloat(rs, ((x.e - sh) \div 2) - 1)

\* the float64 value of the integer n
FromInt(n) == RoundFloat(n, 0)

\* the float64 value of the fraction p / q
Frac(p, q) == TrueDivide(FromInt(p), FromInt(q))


(***************************************************************************)
(* Arrays.  A one-dimensional ndarray is the sequence of its values; the   *)
(* argument of update is an ndarray of dimension 0 (a scalar) or 1.        *)
(***************************************************************************)
\* the values a likelihood array is filled with
LikValues == {Zero, Frac(1, 3), One, FromInt(-1)}

Arrays(values, maxlen) == UNION {[1..n -> values] : n \in 0..maxlen}

Likelihoods ==
    [ndim : {1}, data : Arrays(LikValues, MaxHyp + 1)]
    \cup [ndim : {0}, data : [1..1 -> LikValues]]

\* numpy's broadcasting rule for a one-dimensional array a and the operand b
Broadcastable(a, b) ==
    \/ b.ndim = 0
    \/ Len(b.data) = Len(a)
    \/ Len(b.data) = 1
    \/ Len(a) = 1

\* a * b of ndarray.__mul__, for operands that broadcast
NdMultiply(a, b) ==
    IF b.ndim = 0 \/ Len(b.data) = 1
    THEN [i \in 1..Len(a) |-> Multiply(a[i], b.data[1])]
    ELSE IF Len(b.data) = Len(a)
    THEN [i \in 1..Len(a) |-> Multiply(a[i], b.data[i])]
    ELSE [i \in 1..Len(b.data) |-> Multiply(a[1], b.data[i])]

\* res after "for i: res += a[i]": the values of a added to res one by one
RECURSIVE SumFrom(_, _)
SumFrom(res, a) ==
    IF a = <<>> THEN res ELSE SumFrom(Add(res, Head(a)), Tail(a))

\* a.sum() of an array of at most 128 values: numpy adds fewer than 8 values
\* from left to right, from 0.0; of 8 values or more it keeps 8 partial
\* sums, r[j] of the values at j, j + 8, j + 16, ..., adds them up in pairs
\* and then adds the values left over, as many as Len(a) % 8, one by one
NdSum(a) ==
    IF Len(a) < 8 THEN SumFrom(Zero, a)
    ELSE LET blocks == Len(a) \div 8
             r(j)   == SumFrom(a[j], [b \in 1..(blocks - 1) |-> a[8 * b + j]])
             res    == Add(Add(Add(r(1), r(2)), Add(r(3), r(4))),
                           Add(Add(r(5), r(6)), Add(r(7), r(8))))
         IN  SumFrom(res, SubSeq(a, 8 * blocks + 1, Len(a)))

\* a / s of ndarray.__truediv__ for the scalar s
NdTrueDivide(a, s) == [i \in 1..Len(a) |-> TrueDivide(a[i], s)]

(***************************************************************************)
(* The estimator.                                                          *)
(***************************************************************************)
VARIABLES
    hypotheses,   \* self.hypotheses
    prior_dist,   \* self.prior_dist, a scipy.stats.randint(low, high)
    priors,       \* self.priors
    posteriors,   \* self.posteriors, the history
    calls,        \* the update calls made so far: the argument and the outcome
    before,       \* self.posteriors as it was when the last call began
    raised,       \* the exception the last call raised, or "none"
    returned,     \* <<v>> for the value v the last call returned, or <<>>
    df_rabbits,   \* the DataFrame df_rabbits, column by column, or <<>>
    quantile,     \* the last get_quantile call and its outcome, or <<>>
    written,      \* the caller's in-place assignments to arrays it was handed
    dataset,      \* the data series given to get_confidence_interval, or <<>>
    interval,     \* the last get_confidence_interval call, or <<>>
    count_accepted, \* count_accepted of the loop that estimates pi
    count_total,  \* count_total of that loop
    computed_pis, \* computed_pis of that loop
    x_draws,      \* the values x_dist.rvs() has returned, in order
    y_draws,      \* the values y_dist.rvs() has returned, in order
    figures,      \* what each call of plot has drawn, in order
    frame         \* the call in progress, statement by statement, or <<>>

\* the variables of the cells that follow the estimator in its notebook
table_vars == <<df_rabbits, quantile, written>>

\* the variables of the notebook of the confidence intervals
day21_vars == <<dataset, interval>>

\* the variables of the loop that estimates pi
day19_vars == <<count_accepted, count_total, computed_pis, x_draws, y_draws>>

\* the variables of the cells that are not the subject of a specification
\* of the estimator: the loop that estimates pi, the figures, the call that
\* is followed statement by statement
other_vars == <<day19_vars, figures, frame>>

vars == <<hypotheses, prior_dist, priors, posteriors, calls, before, raised, returned,
          table_vars, day21_vars, other_vars>>

\* no DataFrame was built, no quantile asked for, no array written to
NoTable == df_rabbits = <<>> /\ quantile = <<>> /\ written = <<>>

\* the notebook of the confidence intervals has not run
NoDataset == dataset = <<>> /\ interval = <<>>

\* the loop that estimates pi has not run
NoLoop ==
    /\ count_accepted = 0
    /\ count_total = 0
    /\ computed_pis = <<>>
    /\ x_draws = <<>>
    /\ y_draws = <<>>

\* the loop that estimates pi has not run, no figure was drawn and no call
\* is followed statement by statement
NoOther == NoLoop /\ figures = <<>> /\ frame = <<>>

\* np.arange(1, n + 1)
Arange(n) == [i \in 1..n |-> i]

\* a mass function that leaves out the lower bound: low < k < high
RandintPmfAboveLow(dist, k) ==
    IF dist.low < k /\ k < dist.high
    THEN TrueDivide(One, FromInt(dist.high - dist.low))
    ELSE Zero

\* scipy.stats.randint(low, high).pmf(k)
RandintPmf(dist, k) ==
    IF dist.low <= k /\ k < dist.high
    THEN TrueDivide(One, FromInt(dist.high - dist.low))
    ELSE Zero

\* a constructor that normalizes the masses it stores
PmfNormalized(dist, h) ==
    NdTrueDivide([i \in 1..Len(h) |-> RandintPmf(dist, h[i])],
                 NdSum([i \in 1..Len(h) |-> RandintPmf(dist, h[i])]))

\* prior_dist.pmf(hypotheses)
Pmf(dist, h) == [i \in 1..Len(h) |-> RandintPmf(dist, h[i])]

PriorDists == {d \in [low : 1..(MaxHyp + 1), high : 2..(MaxHyp + 2)] : d.low < d.high}

\* BayesianEstimation.__init__
Init ==
    \E n \in 1..MaxHyp, d \in PriorDists :
        /\ hypotheses = Arange(n)
        /\ prior_dist = d
        /\ priors = Pmf(d, Arange(n))
        /\ posteriors = <<Pmf(d, Arange(n))>>
        /\ calls = <<>>
        /\ before = <<Pmf(d, Arange(n))>>
        /\ raised = "none"
        /\ returned = <<>>
        /\ NoTable
        /\ NoDataset
        /\ NoOther

\* an update that overwrites the last snapshot instead of appending one
UpdatedOverwrites(history, likelihood) ==
    LET product == NdMultiply(history[Len(history)], likelihood)
    IN  [history EXCEPT ![Len(history)] = NdTrueDivide(product, NdSum(product))]

\* an update that multiplies the last snapshot in place before appending
UpdatedInPlace(history, likelihood) ==
    LET product == NdMultiply(history[Len(history)], likelihood)
    IN  Append([history EXCEPT ![Len(history)] = product],
               NdTrueDivide(product, NdSum(product)))

\* an update without its second statement, the normalization
UpdatedUnnormalized(history, likelihood) ==
    Append(history, NdMultiply(history[Len(history)], likelihood))

\* an update that conditions on the prior instead of the last snapshot
UpdatedFromPrior(history, likelihood) ==
    LET product == NdMultiply(history[1], likelihood)
    IN  Append(history, NdTrueDivide(product, NdSum(product)))

\* an update that normalizes the likelihood instead of the product
UpdatedNormalizesLikelihood(history, likelihood) ==
    Append(history,
           NdMultiply(history[Len(history)],
                      [likelihood EXCEPT !.data = NdTrueDivide(@, NdSum(@))]))

\* an update that divides by the mean of the products instead of their sum
UpdatedDividesByMean(history, likelihood) ==
    LET product == NdMultiply(history[Len(history)], likelihood)
    IN  Append(history,
               NdTrueDivide(product,
                            TrueDivide(NdSum(product), FromInt(Len(product)))))

\* an update that gives every hypothesis a share of the evidence: it adds
\* the likelihood to the last snapshot instead of multiplying by it
UpdatedAdds(history, likelihood) ==
    LET product == NdMultiply(history[Len(history)], likelihood)
        added   == [i \in 1..Len(product) |-> Add(product[i], One)]
    IN  Append(history, NdTrueDivide(added, NdSum(added)))

\* the list self.posteriors after the two statements of update
Updated(history, likelihood) ==
    LET appended == Append(history, NdMultiply(history[Len(history)], likelihood))
        last     == appended[Len(appended)]
    IN  [appended EXCEPT ![Len(appended)] = NdTrueDivide(last, NdSum(last))]

\* a return of the snapshot before the last one
ReturnedPrevious(history) == history[Len(history) - 1]

\* return self.posteriors[-1]
Returned(history) == history[Len(history)]

\* BayesianEstimation.update
Update(likelihood) ==
    /\ Len(calls) < MaxUpdates
    /\ IF Broadcastable(posteriors[Len(posteriors)], likelihood)
       THEN /\ posteriors' = Updated(posteriors, likelihood)
            /\ raised' = "none"
            /\ returned' = <<Returned(posteriors')>>
       ELSE /\ raised' = "ValueError"
            /\ returned' = <<>>
            /\ UNCHANGED posteriors
    /\ calls' = Append(calls, [likelihood |-> likelihood, raised |-> raised'])
    /\ before' = posteriors
    /\ UNCHANGED <<hypotheses, prior_dist, priors, table_vars, day21_vars, other_vars>>

Next == \E likelihood \in Likelihoods : Update(likelihood)

Spec == Init /\ [][Next]_vars

(***************************************************************************)
(* Properties of the estimator.                                            *)
(***************************************************************************)
\* the calls made so far that returned
ReturnedCalls == {i \in DOMAIN calls : calls[i].raised = "none"}

\* every value of the array is 0.0
AllZero(a) == \A i \in DOMAIN a : a[i] = Zero

\* the array's values add up to 1.0 exactly
SumsToOne(a) == Equal(NdSum(a), One)

\* C1: after k update calls that returned, the history self.posteriors has
\* exactly k + 1 entries: a call that returns adds one entry, a call that
\* raises adds none, and no call removes one.
C1_HistoryLength == Len(posteriors) = Cardinality(ReturnedCalls) + 1

\* two update calls have returned
C1_Witness == Cardinality(ReturnedCalls) = 2 /\ Len(posteriors) = 3

\* C2: an update call leaves every snapshot that was in the history before
\* the call as it was, and adds at most one entry, after them.
C2_SnapshotsUnchanged ==
    /\ Len(posteriors) \in {Len(before), Len(before) + 1}
    /\ \A i \in 1..Len(before) : posteriors[i] = before[i]

\* a second update has appended a snapshot that differs from the first one,
\* which differs from the prior
C2_Witness ==
    /\ Len(posteriors) = 3
    /\ posteriors[1] # posteriors[2]
    /\ posteriors[2] # posteriors[3]

\* C3: every stored distribution sums to 1.  Stated for the estimators whose
\* prior sums to 1 exactly and for the snapshots stored by updates with an
\* all-zero likelihood of the length of H.
C3_EverySnapshotSumsToOne ==
    (/\ SumsToOne(posteriors[1])
     /\ \A c \in DOMAIN calls :
            /\ calls[c].likelihood.ndim = 1
            /\ Len(calls[c].likelihood.data) = Len(hypotheses)
            /\ AllZero(calls[c].likelihood.data))
    => \A i \in DOMAIN posteriors : SumsToOne(posteriors[i])

\* every value of the array is finite and not negative
NonNegative(a) == \A i \in DOMAIN a : IsFinite(a[i]) /\ ~Less(a[i], Zero)

\* the sum the update of the snapshot last with the likelihood divides by
Total(last, likelihood) == NdSum(NdMultiply(last, likelihood))

\* the update of the snapshot last with the likelihood is accepted and
\* divides by a sum that is finite and not zero
NonDegenerate(last, likelihood) ==
    /\ Broadcastable(last, likelihood)
    /\ IsFinite(Total(last, likelihood))
    /\ Total(last, likelihood) # Zero

\* C4: update(L) with L of the length of H, on a last snapshot of that
\* length, and with a positive finite total = sum_i history[-1][i] * L[i],
\* appends the snapshot whose i-th value is history[-1][i] * L[i] / total,
\* history[-1] being the last snapshot before the call.
C4_UpdateAppendsNormalizedProduct ==
    calls # <<>> =>
        LET L       == calls[Len(calls)].likelihood
            last    == before[Len(before)]
            n       == Len(hypotheses)
            product == [i \in 1..n |-> Multiply(last[i], L.data[i])]
            total   == NdSum(product)
        IN  (/\ L.ndim = 1
             /\ Len(L.data) = n
             /\ Len(last) = n
             /\ IsFinite(total)
             /\ Less(Zero, total))
            => posteriors =
                   Append(before, [i \in 1..n |-> TrueDivide(product[i], total)])

\* a second update with a positive finite total has appended a snapshot
\* that differs from the previous one and from the normalized product of
\* the prior and the likelihood
C4_Witness ==
    /\ Len(posteriors) = 3
    /\ Len(calls) = 2
    /\ calls[2].likelihood.ndim = 1
    /\ Len(calls[2].likelihood.data) = Len(hypotheses)
    /\ Len(posteriors[2]) = Len(hypotheses)
    /\ IsFinite(Total(posteriors[2], calls[2].likelihood))
    /\ Less(Zero, Total(posteriors[2], calls[2].likelihood))
    /\ posteriors[3] # posteriors[2]
    /\ posteriors[3] # NdTrueDivide(NdMultiply(posteriors[1], calls[2].likelihood),
                                    Total(posteriors[1], calls[2].likelihood))

\* C5: the value update returns is the snapshot it appended, the last entry
\* of the history as it stands after the call.
C5_ReturnsLastSnapshot ==
    (calls # <<>> /\ raised = "none")
    => returned = <<posteriors[Len(posteriors)]>>

\* an update has returned a snapshot that differs from the one before it
C5_Witness ==
    /\ calls # <<>>
    /\ raised = "none"
    /\ returned # <<>>
    /\ returned[1] # posteriors[Len(posteriors) - 1]

\* C6: an update with a likelihood array of all zeros signals an error to
\* the caller, leaves the history unchanged in length, and stores no NaN.
C6_DegenerateUpdateRejected ==
    (/\ calls # <<>>
     /\ calls[Len(calls)].likelihood.ndim = 1
     /\ Len(calls[Len(calls)].likelihood.data) = Len(hypotheses)
     /\ AllZero(calls[Len(calls)].likelihood.data))
    => /\ raised # "none"
       /\ Len(posteriors) = Len(before)
       /\ \A i \in DOMAIN posteriors :
              \A j \in DOMAIN posteriors[i] : ~IsNaN(posteriors[i][j])

\* C7: an update whose argument has a length other than the length of the
\* hypothesis set, a scalar included, raises, and the history stays as it
\* was.
C7_LengthMismatchRejected ==
    (/\ calls # <<>>
     /\ \/ calls[Len(calls)].likelihood.ndim = 0
        \/ Len(calls[Len(calls)].likelihood.data) # Len(hypotheses))
    => /\ raised # "none"
       /\ posteriors = before

\* C8: the constructor stores H and the one-entry history [prior] with
\* prior[i] = pmf(H[i]), as computed and not normalized: the history begins
\* with these masses, also when they do not sum to 1.
C8_ConstructionStoresPmf ==
    /\ priors = [i \in 1..Len(hypotheses) |-> RandintPmf(prior_dist, hypotheses[i])]
    /\ posteriors[1] = priors
    /\ calls = <<>> => posteriors = <<priors>>

\* a newly built estimator whose prior has some mass and does not sum to 1
C8_Witness ==
    /\ calls = <<>>
    /\ \E i \in DOMAIN posteriors[1] : posteriors[1][i] # Zero
    /\ ~SumsToOne(posteriors[1])

\* |x - y| <= 3 * m * 2^(-Prec) * max(|x|, |y|): x and y agree up to the
\* rounding errors of m operations
Close(x, y, m) ==
    IF x = y THEN TRUE
    ELSE IF ~IsFinite(x) \/ ~IsFinite(y) THEN FALSE
    ELSE IF Sign(x.m) # Sign(y.m) THEN FALSE
    ELSE IF Top(x) - Top(y) > 2 \/ Top(y) - Top(x) > 2 THEN FALSE
    ELSE LET e  == IF x.e < y.e THEN x.e ELSE y.e
             xx == Abs(x.m) * Pow2(x.e - e)
             yy == Abs(y.m) * Pow2(y.e - e)
             mx == IF xx < yy THEN yy ELSE xx
         IN  Abs(xx - yy) <= (3 * m * mx) \div Pow2(Prec)

\* two updates were made, both returned, and in the other order both are
\* accepted too; no update, in either order, divides by a zero or a
\* non-finite sum
BothOrdersNonDegenerate ==
    /\ Len(calls) = 2
    /\ Len(posteriors) = 3
    /\ NonDegenerate(posteriors[1], calls[1].likelihood)
    /\ NonDegenerate(posteriors[2], calls[2].likelihood)
    /\ NonDegenerate(posteriors[1], calls[2].likelihood)
    /\ NonDegenerate(Updated(<<posteriors[1]>>, calls[2].likelihood)[2],
                     calls[1].likelihood)

\* the history after the two updates made, made in the other order
OtherOrder ==
    Updated(Updated(<<posteriors[1]>>, calls[2].likelihood), calls[1].likelihood)

\* the two likelihoods are arrays of the length of H without negative values
BothLikelihoodsProper ==
    \A c \in {1, 2} :
        /\ calls[c].likelihood.ndim = 1
        /\ Len(calls[c].likelihood.data) = Len(hypotheses)
        /\ NonNegative(calls[c].likelihood.data)

AgreeOnSupport(a, b) ==
    \A i \in DOMAIN posteriors[1] : posteriors[1][i] # Zero => a[i] = b[i]

Support(a) == {i \in DOMAIN a : a[i] # Zero}

\* two updates were made with one likelihood array of the length of H
\* without negative values, and neither was degenerate
SameLikelihoodTwice ==
    /\ Len(calls) = 2
    /\ Len(posteriors) = 3
    /\ calls[1].likelihood = calls[2].likelihood
    /\ calls[1].likelihood.ndim = 1
    /\ Len(calls[1].likelihood.data) = Len(hypotheses)
    /\ NonNegative(calls[1].likelihood.data)
    /\ NonDegenerate(posteriors[1], calls[1].likelihood)
    /\ NonDegenerate(posteriors[2], calls[2].likelihood)

\* C11 as claimed: of two updates in a row with the same likelihood array,
\* the second returns a snapshot that differs from the one the first
\* returned.
C11_SecondResultDiffers ==
    SameLikelihoodTwice => posteriors[3] # posteriors[2]

\* C11 as amended: of two updates in a row with the same likelihood array
\* L, the second returns a snapshot that differs from the one the first
\* returned whenever L has values that differ by more than the rounding
\* error (a relative 6 * 2^(-Prec)) at two hypotheses that both have mass
\* in the first call's posterior: the second call conditions on that
\* posterior, not on the prior.
C11_SecondResultDiffersOnSupport ==
    (/\ SameLikelihoodTwice
     /\ \E a \in Support(posteriors[2]), b \in Support(posteriors[2]) :
            ~Close(calls[1].likelihood.data[a], calls[1].likelihood.data[b], 2))
    => posteriors[3] # posteriors[2]

\* the same likelihood was applied twice, with different values at two
\* hypotheses that have mass, and the second snapshot differs from the first
\* and from the prior
C11_Witness ==
    /\ SameLikelihoodTwice
    /\ \E a \in Support(posteriors[2]), b \in Support(posteriors[2]) :
           ~Close(calls[1].likelihood.data[a], calls[1].likelihood.data[b], 2)
    /\ posteriors[3] # posteriors[2]
    /\ posteriors[2] # posteriors[1]

(***************************************************************************)
(* The rabbit problem of the notebook: the estimator over np.arange(1, 11) *)
(* with its two updates, the DataFrame built from its last snapshot, and   *)
(* get_quantile.                                                           *)
(***************************************************************************)
\* the stop value of np.arange(1, 11)
ArangeStop == 11

\* the bounds of scipy.stats.randint(4, 11)
RandintLow == 4

RandintHigh == 11

\* the columns of df_rabbits
ColHypos == "number of rabbits"

ColProbs == "probabilities"

\* 1 / my_rabbit_problem.hypotheses
day2_likelihoods(h) ==
    [ndim |-> 1, data |-> [i \in 1..Len(h) |-> TrueDivide(One, FromInt(h[i]))]]

\* the likelihood of the first update, once more
day3_likelihoods_repeated(h) == day2_likelihoods(h)

\* (my_rabbit_problem.hypotheses - 1) / my_rabbit_problem.hypotheses
day3_likelihoods(h) ==
    [ndim |-> 1,
     data |-> [i \in 1..Len(h) |-> TrueDivide(FromInt(h[i] - 1), FromInt(h[i]))]]

\* the prior distributions tried: randint(4, 11) and others from 1 or 4 on
RabbitPriorDists ==
    {d \in [low : {1, RandintLow}, high : 2..(ArangeStop + 1)] : d.low < d.high}

\* the target probabilities asked of get_quantile
DesiredProbs == {Zero, Frac(5, 100), Frac(1, 2), Frac(95, 100), One}

\* BayesianEstimation(hypotheses, prior_dist) over np.arange(1, 11)
InitRabbit ==
    \E d \in RabbitPriorDists :
        /\ hypotheses = Arange(ArangeStop - 1)
        /\ prior_dist = d
        /\ priors = Pmf(d, Arange(ArangeStop - 1))
        /\ posteriors = <<Pmf(d, Arange(ArangeStop - 1))>>
        /\ calls = <<>>
        /\ before = <<Pmf(d, Arange(ArangeStop - 1))>>
        /\ raised = "none"
        /\ returned = <<>>
        /\ NoTable
        /\ NoDataset
        /\ NoOther

\* df_rabbits = pd.DataFrame.from_dict(dict_rabbits): the hypotheses next to
\* the last snapshot; pandas raises when the two lengths differ
FromDict ==
    /\ IF Len(hypotheses) = Len(posteriors[Len(posteriors)])
       THEN /\ df_rabbits' = (ColHypos :> hypotheses
                              @@ ColProbs :> posteriors[Len(posteriors)])
            /\ raised' = "none"
       ELSE /\ raised' = "ValueError"
            /\ UNCHANGED df_rabbits
    /\ returned' = <<>>
    /\ UNCHANGED <<hypotheses, prior_dist, priors, posteriors, calls, before,
                   quantile, written, day21_vars, other_vars>>

\* a loop that compares the accumulated mass before it adds the row's
iterrows_late(df_posterior, col_probs, col_hypos, desired_prob, i, acc_probs) ==
    LET reached == {j \in i..Len(df_posterior[col_probs]) :
                        GreaterEqual(SumFrom(acc_probs,
                                             SubSeq(df_posterior[col_probs], i, j - 1)),
                                     desired_prob)}
    IN  IF reached = {} THEN NaN
        ELSE FromInt(df_posterior[col_hypos][CHOOSE j \in reached :
                                                 \A k \in reached : j <= k])

\* a loop that asks for more than the target: acc_probs > desired_prob
iterrows_strict(df_posterior, col_probs, col_hypos, desired_prob, i, acc_probs) ==
    LET reached == {j \in i..Len(df_posterior[col_probs]) :
                        Less(desired_prob,
                             SumFrom(acc_probs, SubSeq(df_posterior[col_probs], i, j)))}
    IN  IF reached = {} THEN NaN
        ELSE FromInt(df_posterior[col_hypos][CHOOSE j \in reached :
                                                 \A k \in reached : j <= k])

\* a loop over the rows in reverse order, from the last row to row i
iterrows_reversed(df_posterior, col_probs, col_hypos, desired_prob, i, acc_probs) ==
    LET n       == Len(df_posterior[col_probs])
        tail(j) == [k \in 1..(n - j + 1) |-> df_posterior[col_probs][n - k + 1]]
        reached == {j \in i..n : GreaterEqual(SumFrom(acc_probs, tail(j)), desired_prob)}
    IN  IF reached = {} THEN NaN
        ELSE FromInt(df_posterior[col_hypos][CHOOSE j \in reached :
                                                 \A k \in reached : k <= j])

\* the for loop of get_quantile from row i on, acc_probs being the mass
\* accumulated over the rows before it; a row of an integer and a float
\* column is a row of floats
RECURSIVE iterrows(_, _, _, _, _, _)
iterrows(df_posterior, col_probs, col_hypos, desired_prob, i, acc_probs) ==
    IF i > Len(df_posterior[col_probs]) THEN NaN
    ELSE LET acc == Add(acc_probs, df_posterior[col_probs][i])
         IN  IF GreaterEqual(acc, desired_prob)
             THEN FromInt(df_posterior[col_hypos][i])
             ELSE iterrows(df_posterior, col_probs, col_hypos, desired_prob,
                           i + 1, acc)

\* get_quantile(df_posterior, col_probs, col_hypos, desired_prob)
get_quantile(df_posterior, col_probs, col_hypos, desired_prob) ==
    iterrows(df_posterior, col_probs, col_hypos, desired_prob, 1, Zero)

\* get_quantile(df_rabbits, "probabilities", "number of rabbits", desired_prob)
GetQuantile(desired_prob) ==
    /\ df_rabbits # <<>>
    /\ quantile' = [df           |-> df_rabbits,
                    desired_prob |-> desired_prob,
                    raised       |-> "none",
                    returned     |-> <<get_quantile(df_rabbits, ColProbs, ColHypos,
                                                    desired_prob)>>]
    /\ raised' = "none"
    /\ returned' = quantile'.returned
    /\ UNCHANGED <<hypotheses, prior_dist, priors, posteriors, calls, before,
                   df_rabbits, written, day21_vars, other_vars>>

NextRabbit ==
    \/ Update(day2_likelihoods(hypotheses))
    \/ Update(day3_likelihoods(hypotheses))
    \/ FromDict
    \/ \E desired_prob \in DesiredProbs : GetQuantile(desired_prob)

SpecRabbit == InitRabbit /\ [][NextRabbit]_vars

(***************************************************************************)
(* Properties of get_quantile and of the rabbit problem.                   *)
(***************************************************************************)
\* the mass accumulated over the first i rows, added row by row from 0.0
Accumulated(probs, i) == SumFrom(Zero, SubSeq(probs, 1, i))

\* the rows at which the accumulated mass reaches or exceeds the target
Reached(probs, p) ==
    {i \in DOMAIN probs : GreaterEqual(Accumulated(probs, i), p)}

\* the first row of a set of rows
FirstRow(rows) == CHOOSE i \in rows : \A k \in rows : i <= k

\* the smallest exponent of the values of an array and of the value p
RECURSIVE MinExponent(_, _)
MinExponent(a, p) ==
    IF a = <<>> THEN p.e
    ELSE LET rest == MinExponent(Tail(a), p)
         IN  IF Head(a).e < rest THEN Head(a).e ELSE rest

\* the sum of the finite values of an array, not rounded, in units of 2^e
RECURSIVE ExactSum(_, _)
ExactSum(a, e) ==
    IF a = <<>> THEN 0
    ELSE Head(a).m * Pow2(Head(a).e - e) + ExactSum(Tail(a), e)

\* the values of the array are finite and their total, the sum of the
\* stored values without any rounding, is at least p
TotalMassReaches(probs, p) ==
    /\ \A i \in DOMAIN probs : IsFinite(probs[i])
    /\ IsFinite(p)
    /\ ExactSum(probs, MinExponent(probs, p))
           >= p.m * Pow2(p.e - MinExponent(probs, p))

\* C12 as claimed: for every distribution whose total mass reaches the
\* target p, get_quantile returns the first hypothesis, in row order, at
\* which the accumulated mass reaches or exceeds p.
C12_ReturnsFirstReachingWhenTotalReaches ==
    (/\ quantile # <<>>
     /\ TotalMassReaches(quantile.df[ColProbs], quantile.desired_prob))
    => /\ Reached(quantile.df[ColProbs], quantile.desired_prob) # {}
       /\ quantile.returned =
              <<FromInt(quantile.df[ColHypos][
                    FirstRow(Reached(quantile.df[ColProbs], quantile.desired_prob))])>>

\* C12 as amended: get_quantile adds the masses row by row in floating
\* point, from 0.0, and returns the first hypothesis, in row order, at which
\* this accumulated mass reaches or exceeds the target p, for every
\* distribution whose mass, accumulated in this way, reaches p at some row.
C12_ReturnsFirstReaching ==
    (/\ quantile # <<>>
     /\ Reached(quantile.df[ColProbs], quantile.desired_prob) # {})
    => quantile.returned =
           <<FromInt(quantile.df[ColHypos][
                 FirstRow(Reached(quantile.df[ColProbs], quantile.desired_prob))])>>

\* a quantile was found at a row after the first, and one at a row where
\* the accumulated mass is the target exactly
C12_Witness ==
    /\ quantile # <<>>
    /\ Reached(quantile.df[ColProbs], quantile.desired_prob) # {}
    /\ FirstRow(Reached(quantile.df[ColProbs], quantile.desired_prob)) > 1
    /\ Accumulated(quantile.df[ColProbs],
                   FirstRow(Reached(quantile.df[ColProbs], quantile.desired_prob)))
           = quantile.desired_prob
    /\ quantile.returned # <<NaN>>

\* C13: when the accumulated mass never reaches the target, get_quantile
\* signals that no quantile was found in a way distinct from returning a
\* value: it returns nothing, no sentinel either, in the position of the
\* hypothesis value.
C13_NotFoundSignalledDistinctly ==
    (/\ quantile # <<>>
     /\ Reached(quantile.df[ColProbs], quantile.desired_prob) = {})
    => /\ quantile.raised # "none"
       /\ quantile.returned = <<>>

\* the uniform distribution over 10 hypotheses, 1 / 10 each
Uniform10 == [i \in 1..10 |-> TrueDivide(One, FromInt(10))]

\* C14: for the uniform distribution over 10 hypotheses, 1 / 10 each,
\* get_quantile returns the first hypothesis for the target 0.05 and the
\* 10th hypothesis for the target 0.95.
C14_UniformQuantiles ==
    (/\ quantile # <<>>
     /\ quantile.df[ColProbs] = Uniform10)
    => /\ quantile.desired_prob = Frac(5, 100)
            => quantile.returned = <<FromInt(quantile.df[ColHypos][1])>>
       /\ quantile.desired_prob = Frac(95, 100)
            => quantile.returned = <<FromInt(quantile.df[ColHypos][10])>>

\* the 0.95 quantile of the uniform distribution over 1..10 was asked for
\* and is 10.0, the accumulated mass of nine rows being below 0.95
C14_Witness ==
    /\ quantile # <<>>
    /\ quantile.df[ColProbs] = Uniform10
    /\ quantile.desired_prob = Frac(95, 100)
    /\ Less(Accumulated(Uniform10, 9), Frac(95, 100))
    /\ quantile.returned = <<FromInt(10)>>

\* the estimator of the notebook: H = 1..10, the prior uniform on 4..10
RabbitProblem ==
    /\ hypotheses = Arange(ArangeStop - 1)
    /\ prior_dist = [low |-> RandintLow, high |-> RandintHigh]

\* C15: with H = 1..10 and the prior uniform on 4..10, after the update
\* with L1[i] = 1 / H[i] the posterior is proportional to prior[i] / H[i]
\* (posterior[i] * H[i] is the same for the hypotheses 4..10, up to the
\* rounding of four operations), the entry of hypothesis 4 is strictly the
\* largest of all entries and the entries of hypotheses 1..3 are 0.
C15_FirstUpdateFavoursFour ==
    (/\ RabbitProblem
     /\ calls # <<>>
     /\ calls[1].likelihood = day2_likelihoods(hypotheses))
    => /\ \A i \in 1..(RandintLow - 1) : posteriors[2][i] = Zero
       /\ \A i \in DOMAIN posteriors[2] :
              i # RandintLow => Less(posteriors[2][i], posteriors[2][RandintLow])
       /\ \A i \in RandintLow..(RandintHigh - 1) :
              Close(Multiply(posteriors[2][i], FromInt(hypotheses[i])),
                    Multiply(posteriors[2][RandintLow], FromInt(RandintLow)), 4)

\* the first update of the rabbit problem was made and changed the values
\* of the hypotheses 4..10
C15_Witness ==
    /\ RabbitProblem
    /\ Len(calls) = 1
    /\ calls[1].likelihood = day2_likelihoods(hypotheses)
    /\ \A i \in RandintLow..(RandintHigh - 1) :
           /\ posteriors[1][i] = TrueDivide(One, FromInt(7))
           /\ posteriors[2][i] # posteriors[1][i]
           /\ Less(Zero, posteriors[2][i])

\* C16: in the same scenario the update with L2[i] = (H[i] - 1) / H[i],
\* made after the first, shifts mass toward the larger hypotheses: for
\* every two hypotheses a < b in 4..10 the ratio posterior[b] / posterior[a]
\* is strictly greater in history[2] than in history[1].
C16_SecondUpdateShiftsUp ==
    (/\ RabbitProblem
     /\ Len(calls) = 2
     /\ calls[1].likelihood = day2_likelihoods(hypotheses)
     /\ calls[2].likelihood = day3_likelihoods(hypotheses))
    => /\ Len(posteriors) = 3
       /\ \A a \in RandintLow..(RandintHigh - 1), b \in RandintLow..(RandintHigh - 1) :
              a < b => Less(TrueDivide(posteriors[2][b], posteriors[2][a]),
                            TrueDivide(posteriors[3][b], posteriors[3][a]))

\* both updates of the rabbit problem were made, in the notebook's order,
\* and the last snapshot has less mass at 4 and more at 10 than the one
\* before it
C16_Witness ==
    /\ RabbitProblem
    /\ Len(calls) = 2
    /\ calls[1].likelihood = day2_likelihoods(hypotheses)
    /\ calls[2].likelihood = day3_likelihoods(hypotheses)
    /\ Len(posteriors) = 3
    /\ Less(posteriors[3][RandintLow], posteriors[2][RandintLow])
    /\ Less(posteriors[2][RandintHigh - 1], posteriors[3][RandintHigh - 1])

(***************************************************************************)
(* The arrays the caller holds.  Python hands out references: the          *)
(* attribute priors is the array object that is entry 0 of self.posteriors *)
(* (self.posteriors = [self.priors]), and update returns the array object  *)
(* that is the last entry (return self.posteriors[-1]).  Each entry is an  *)
(* array object of its own (the product and the quotient of update are new *)
(* arrays), so the position of an entry stands for the object.             *)
(***************************************************************************)
\* the values the caller assigns
WrittenValues == {Zero, FromInt(5)}

\* a[i] = value, a being my_rabbit_problem.priors (entry k = 1 of the
\* history) or the array an update returned (entry k > 1)
SetItem(k, i, value) ==
    /\ Len(written) < MaxWrites
    /\ k \in DOMAIN posteriors
    /\ i \in DOMAIN posteriors[k]
    /\ posteriors' = [posteriors EXCEPT ![k][i] = value]
    /\ priors' = IF k = 1 THEN [priors EXCEPT ![i] = value] ELSE priors
    /\ written' = Append(written, [handle  |-> IF k = 1 THEN "priors" ELSE "returned",
                                   entry   |-> k,
                                   index   |-> i,
                                   value   |-> value,
                                   history |-> posteriors])
    /\ UNCHANGED <<hypotheses, prior_dist, calls, before, raised, returned,
                   df_rabbits, quantile, day21_vars, other_vars>>

NextAlias ==
    \/ Update(day2_likelihoods(hypotheses))
    \/ Update(day3_likelihoods(hypotheses))
    \/ \E k \in 1..(MaxUpdates + 1), i \in 1..MaxHyp, value \in WrittenValues :
           SetItem(k, i, value)

SpecAlias == Init /\ [][NextAlias]_vars

\* C17: no array handed or returned to the caller (the priors attribute,
\* the array update returned) is the array object of a history entry: after
\* an in-place assignment by the caller to such an array, every snapshot
\* that was stored before the assignment is as it was.
C17_HistoryNotAliased ==
    \A w \in DOMAIN written :
        \A j \in DOMAIN written[w].history :
            posteriors[j] = written[w].history[j]

\* C18: the hypothesis set is fixed at construction: hypotheses, priors and
\* prior_dist stay as the constructor set them, and every snapshot of the
\* history has the length of the hypothesis set after any sequence of
\* accepted updates.
C18_HypothesesFixedSnapshotsAligned ==
    /\ hypotheses = Arange(Len(hypotheses))
    /\ priors = Pmf(prior_dist, hypotheses)
    /\ posteriors[1] = priors
    /\ \A i \in DOMAIN posteriors : Len(posteriors[i]) = Len(hypotheses)

\* the snapshot that was the last one when the c-th update call began
SnapshotBefore(c) ==
    posteriors[1 + Cardinality({d \in 1..(c - 1) : calls[d].raised = "none"})]

\* every likelihood value supplied so far is finite and not negative, and
\* no update was degenerate: each accepted one divided by a finite nonzero
\* sum
NoNegativeNoDegenerate ==
    \A c \in DOMAIN calls :
        /\ NonNegative(calls[c].likelihood.data)
        /\ calls[c].raised = "none"
               => NonDegenerate(SnapshotBefore(c), calls[c].likelihood)

\* C19: when the prior values and every supplied likelihood value are not
\* negative and no update is degenerate, every value of every stored
\* snapshot is finite and not negative, and at most 1 in the snapshots at
\* index 1 and above.
C19_SnapshotsWithinUnitInterval ==
    (NonNegative(posteriors[1]) /\ NoNegativeNoDegenerate)
    => \A i \in DOMAIN posteriors :
           /\ NonNegative(posteriors[i])
           /\ i >= 2 => \A j \in DOMAIN posteriors[i] : ~Less(One, posteriors[i][j])

\* two updates without negative values, neither degenerate, were made and
\* the last snapshot has a value strictly between 0 and 1
C19_Witness ==
    /\ Len(calls) = 2
    /\ Len(posteriors) = 3
    /\ NonNegative(posteriors[1])
    /\ NoNegativeNoDegenerate
    /\ \E j \in DOMAIN posteriors[3] :
           Less(Zero, posteriors[3][j]) /\ Less(posteriors[3][j], One)

(***************************************************************************)
(* get_confidence_interval.  Of the data series the function reads its     *)
(* length, its mean() and its std(); what it returns is the interval of a  *)
(* scipy.stats distribution, given here by the distribution, its degrees   *)
(* of freedom, its location and its scale.                                 *)
(***************************************************************************)
\* the values of dataset.mean()
MeanValues == {Zero, Frac(1, 3), FromInt(-2)}

\* the values of dataset.std()
StdValues == {Zero, Frac(1, 3), One}

\* the values of ci_level
CiLevels == {Frac(9, 10), Frac(95, 100)}

\* the data series: the mean of no sample and the standard deviation of
\* fewer than two samples are not numbers
Datasets ==
    {[n |-> 0, mean |-> NaN, stdev |-> NaN]}
    \cup [n : {1}, mean : MeanValues, stdev : {NaN}]
    \cup [n : 2..MaxSamples, mean : MeanValues, stdev : StdValues]

\* no estimator was built
NoEstimator ==
    /\ hypotheses = <<>>
    /\ prior_dist = <<>>
    /\ priors = <<>>
    /\ posteriors = <<>>
    /\ calls = <<>>
    /\ before = <<>>
    /\ raised = "none"
    /\ returned = <<>>

\* the notebook of the confidence intervals with a data series loaded
InitDay21 ==
    /\ dataset \in Datasets
    /\ interval = <<>>
    /\ NoEstimator
    /\ NoTable
    /\ NoOther

\* a function that takes the normal distribution from 30 samples on
get_confidence_interval_from_30(data, ci_level, force_t) ==
    LET stderr == TrueDivide(data.stdev, Sqrt(FromInt(data.n)))
    IN  IF data.n >= 30 /\ ~force_t
        THEN [dist |-> "norm", ddof |-> <<>>, ci_level |-> ci_level,
              loc |-> data.mean, scale |-> stderr]
        ELSE [dist |-> "t", ddof |-> <<data.n - 1>>, ci_level |-> ci_level,
              loc |-> data.mean, scale |-> stderr]

\* get_confidence_interval(dataset, ci_level, force_t): the interval of
\* scipy.stats.norm or of scipy.stats.t that it returns
get_confidence_interval(data, ci_level, force_t) ==
    LET n      == data.n
        mean   == data.mean
        stdev  == data.stdev
        stderr == TrueDivide(stdev, Sqrt(FromInt(n)))
    IN  IF n > 30 /\ ~force_t
        THEN [dist |-> "norm", ddof |-> <<>>, ci_level |-> ci_level,
              loc |-> mean, scale |-> stderr]
        ELSE [dist |-> "t", ddof |-> <<n - 1>>, ci_level |-> ci_level,
              loc |-> mean, scale |-> stderr]

\* a call of get_confidence_interval on the data series
GetConfidenceInterval(ci_level, force_t) ==
    /\ interval' = [dataset  |-> dataset,
                    ci_level |-> ci_level,
                    force_t  |-> force_t,
                    returned |-> get_confidence_interval(dataset, ci_level, force_t)]
    /\ UNCHANGED <<hypotheses, prior_dist, priors, posteriors, calls, before,
                   raised, returned, table_vars, dataset, other_vars>>

NextDay21 ==
    \E ci_level \in CiLevels, force_t \in BOOLEAN :
        GetConfidenceInterval(ci_level, force_t)

SpecDay21 == InitDay21 /\ [][NextDay21]_vars

\* C20: get_confidence_interval takes the interval of the normal
\* distribution exactly when the number of samples n is greater than 30 and
\* force_t is false, and otherwise that of the t distribution with n - 1
\* degrees of freedom; in both cases the interval has the level asked for,
\* is centred on the sample mean and has the scale stdev / sqrt(n).
C20_ZExactlyAbove30 ==
    interval # <<>> =>
        LET r == interval.returned
            d == interval.dataset
        IN  /\ r.dist \in {"norm", "t"}
            /\ r.dist = "norm" <=> (d.n > 30 /\ ~interval.force_t)
            /\ r.dist = "t" => r.ddof = <<d.n - 1>>
            /\ r.ci_level = interval.ci_level
            /\ r.loc = d.mean
            /\ r.scale = TrueDivide(d.stdev, Sqrt(FromInt(d.n)))
            /\ (IsFinite(d.stdev) /\ d.n > 0)
                   => Close(Multiply(Multiply(r.scale, r.scale), FromInt(d.n)),
                            Multiply(d.stdev, d.stdev), 3)

\* the interval of 30 samples without force_t was asked for and is a t
\* interval with 29 degrees of freedom and a positive scale
C20_Witness ==
    /\ interval # <<>>
    /\ interval.dataset.n = 30
    /\ ~interval.force_t
    /\ interval.returned.dist = "t"
    /\ interval.returned.ddof = <<29>>
    /\ Less(Zero, interval.returned.scale)
    /\ Less(interval.returned.scale, interval.dataset.stdev)

(***************************************************************************)
(* Properties of the snapshot an update appends.                           *)
(***************************************************************************)
\* the last update call returned and divided by a positive finite sum
LastUpdateNonDegenerate ==
    /\ calls # <<>>
    /\ calls[Len(calls)].raised = "none"
    /\ IsFinite(Total(before[Len(before)], calls[Len(calls)].likelihood))
    /\ Less(Zero, Total(before[Len(before)], calls[Len(calls)].likelihood))

\* C21: after an update with a positive finite total the snapshot it
\* appended sums to 1, whatever the snapshot it was computed from sums to.
C21_AppendedSumsToOne ==
    LastUpdateNonDegenerate => SumsToOne(posteriors[Len(posteriors)])

\* C21 as amended: after an update with a positive finite total and without
\* a negative product, the snapshot it appended sums to 1 up to rounding:
\* the sum of its n values differs from 1 by at most 3 * n * 2^(-Prec).
C21_AppendedSumsToOneWithinRounding ==
    (/\ LastUpdateNonDegenerate
     /\ NonNegative(NdMultiply(before[Len(before)], calls[Len(calls)].likelihood)))
    => Close(NdSum(posteriors[Len(posteriors)]), One, Len(posteriors[Len(posteriors)]))

\* an update with a positive finite total was made on a snapshot that does
\* not sum to 1, and the snapshot it appended is not that snapshot
C21_Witness ==
    /\ LastUpdateNonDegenerate
    /\ NonNegative(NdMultiply(before[Len(before)], calls[Len(calls)].likelihood))
    /\ ~Close(NdSum(before[Len(before)]), One, Len(before[Len(before)]))
    /\ posteriors[Len(posteriors)] # before[Len(before)]

\* no update was degenerate: each accepted one divided by a finite nonzero
\* sum
NoDegenerate ==
    \A c \in DOMAIN calls :
        calls[c].raised = "none"
            => NonDegenerate(SnapshotBefore(c), calls[c].likelihood)

\* C22: zero mass is absorbing.  When no update is degenerate, a hypothesis
\* with probability 0 in history[j] has probability 0 in every later
\* snapshot history[k], k > j.
C22_ZeroMassAbsorbing ==
    NoDegenerate
    => \A j \in DOMAIN posteriors, k \in DOMAIN posteriors :
           j < k => \A i \in DOMAIN posteriors[j] \cap DOMAIN posteriors[k] :
                        posteriors[j][i] = Zero => posteriors[k][i] = Zero

\* two non-degenerate updates were made; a hypothesis without mass in the
\* prior was given a positive likelihood by both and has no mass in either
\* posterior, while another hypothesis has
C22_Witness ==
    /\ NoDegenerate
    /\ Len(posteriors) = 3
    /\ \E i \in DOMAIN posteriors[1] :
           /\ posteriors[1][i] = Zero
           /\ \A c \in {1, 2} :
                  /\ calls[c].likelihood.ndim = 1
                  /\ Len(calls[c].likelihood.data) = Len(posteriors[1])
                  /\ Less(Zero, calls[c].likelihood.data[i])
           /\ posteriors[2][i] = Zero
           /\ posteriors[3][i] = Zero
    /\ \E i \in DOMAIN posteriors[3] : Less(Zero, posteriors[3][i])

\* every value of the array is the not-a-number
AllNaN(a) == \A i \in DOMAIN a : IsNaN(a[i])

\* the snapshot the c-th update call appended; the call returned
Appended(c) ==
    posteriors[2 + Cardinality({d \in 1..(c - 1) : calls[d].raised = "none"})]

\* C23: once an update was made with a likelihood whose product with the
\* last snapshot sums to zero, the snapshot it appended is nan in every
\* position, and every later update appends a snapshot that is nan in every
\* position.
C23_NeverRecovers ==
    \A c \in DOMAIN calls :
        (/\ calls[c].raised = "none"
         /\ Total(SnapshotBefore(c), calls[c].likelihood) = Zero)
        => \A d \in c..Len(calls) :
               calls[d].raised = "none" /\ AllNaN(Appended(d))

\* C23 as amended: once an update was made with a likelihood whose products
\* with the last snapshot are all zero, the snapshot it appended is nan in
\* every position, and every later update that is accepted appends a
\* snapshot that is nan in every position; an update that is rejected for
\* its shape appends nothing, so the last snapshot stays nan in every
\* position.
C23_NeverRecoversFromZeroProducts ==
    \A c \in DOMAIN calls :
        (/\ calls[c].raised = "none"
         /\ AllZero(NdMultiply(SnapshotBefore(c), calls[c].likelihood)))
        => /\ \A d \in c..Len(calls) :
                  calls[d].raised = "none" => AllNaN(Appended(d))
           /\ AllNaN(posteriors[Len(posteriors)])

\* an update whose products were all zero was followed by an update with a
\* likelihood without a zero, and both appended the not-a-number in every
\* position of a snapshot that has positions
C23_Witness ==
    /\ Len(calls) = 2
    /\ Len(posteriors) = 3
    /\ AllZero(NdMultiply(posteriors[1], calls[1].likelihood))
    /\ \A i \in DOMAIN calls[2].likelihood.data : Less(Zero, calls[2].likelihood.data[i])
    /\ posteriors[2] # <<>> /\ AllNaN(posteriors[2])
    /\ posteriors[3] # <<>> /\ AllNaN(posteriors[3])
    /\ ~AllNaN(posteriors[1])

(***************************************************************************)
(* The cells that solve the rabbit problem step by step, before the class  *)
(* is defined: each name is a variable of the notebook, assigned once.     *)
(***************************************************************************)
\* hypotheses = np.arange(1, 11)
global_hypotheses == Arange(ArangeStop - 1)

\* priors = prior_dist.pmf(hypotheses), prior_dist = scipy.stats.randint(4, 11)
global_priors == Pmf([low |-> RandintLow, high |-> RandintHigh], global_hypotheses)

\* day2_unnorm_posts = priors * day2_likelihoods
day2_unnorm_posts == NdMultiply(global_priors, day2_likelihoods(global_hypotheses))

\* day2_posteriors = day2_unnorm_posts / day2_unnorm_posts.sum()
day2_posteriors == NdTrueDivide(day2_unnorm_posts, NdSum(day2_unnorm_posts))

\* day3_priors = day2_posteriors.copy()
day3_priors == day2_posteriors

\* day3_unnorm_posts = day3_priors * day3_likelihoods
day3_unnorm_posts == NdMultiply(day3_priors, day3_likelihoods(global_hypotheses))

\* day3_posteriors = day3_unnorm_posts / day3_unnorm_posts.sum()
day3_posteriors == NdTrueDivide(day3_unnorm_posts, NdSum(day3_unnorm_posts))

\* C24: the rabbit problem solved by the class, after update(1 / H) and
\* update((H - 1) / H), holds the three distributions of the step-by-step
\* cells: history[0] = priors, history[1] = day2_posteriors and
\* history[2] = day3_posteriors, value for value.
C24_ClassHoldsStepByStepDistributions ==
    (/\ RabbitProblem
     /\ Len(calls) = 2
     /\ calls[1].likelihood = day2_likelihoods(hypotheses)
     /\ calls[2].likelihood = day3_likelihoods(hypotheses))
    => posteriors = <<global_priors, day2_posteriors, day3_posteriors>>

\* the class has made the two updates of the rabbit problem and its last
\* snapshot, which differs from the two before it, is day3_posteriors
C24_Witness ==
    /\ RabbitProblem
    /\ Len(calls) = 2
    /\ calls[1].likelihood = day2_likelihoods(hypotheses)
    /\ calls[2].likelihood = day3_likelihoods(hypotheses)
    /\ Len(posteriors) = 3
    /\ posteriors[3] = day3_posteriors
    /\ posteriors[3] # posteriors[2]
    /\ posteriors[2] # posteriors[1]

(***************************************************************************)
(* get_quantile as a function of its arguments: it is called on tables     *)
(* that need not come from an estimator, of up to MaxRows rows, and on the *)
(* three distributions of the rabbit problem.                              *)
(***************************************************************************)
MaxRows == 4

\* the values of the probability column: masses, and values that are none
QuantileMasses == {Zero, Frac(1, 4), Frac(1, 2), Frac(-1, 4), NaN}

\* the target probabilities: those of the rabbit problem and one below 0
QuantileTargets == DesiredProbs \cup {FromInt(-1)}

\* the tables passed as df_posterior
Tables ==
    {(ColHypos :> Arange(Len(probs)) @@ ColProbs :> probs) :
         probs \in Arrays(QuantileMasses, MaxRows)
                   \cup {global_priors, day2_posteriors, day3_posteriors}}

\* a table is given; no estimator is involved
InitQuantile ==
    /\ df_rabbits \in Tables
    /\ quantile = <<>>
    /\ written = <<>>
    /\ NoEstimator
    /\ NoDataset
    /\ NoOther

NextQuantile == \E desired_prob \in QuantileTargets : GetQuantile(desired_prob)

SpecQuantile == InitQuantile /\ [][NextQuantile]_vars

\* the row of the table whose hypothesis get_quantile returned
RowOf(df, value) ==
    CHOOSE i \in DOMAIN df[ColHypos] : FromInt(df[ColHypos][i]) = value

\* C25: get_quantile is monotone in the target probability.  For one table
\* and targets p1 <= p2 for which both results are found, the hypothesis
\* returned for p1 is at or before the one returned for p2 in row order.
\* Stated of the call made, with the target p2, against the result of the
\* function for every other target p1 <= p2.
C25_QuantileMonotone ==
    quantile # <<>> =>
        \A p1 \in QuantileTargets :
            LET r1 == get_quantile(quantile.df, ColProbs, ColHypos, p1)
                r2 == quantile.returned[1]
            IN  (/\ GreaterEqual(quantile.desired_prob, p1)
                 /\ ~IsNaN(r1)
                 /\ ~IsNaN(r2))
                => RowOf(quantile.df, r1) <= RowOf(quantile.df, r2)

\* a quantile was found at a row after the row at which the quantile of a
\* smaller target is found
C25_Witness ==
    /\ quantile # <<>>
    /\ ~IsNaN(quantile.returned[1])
    /\ \E p1 \in QuantileTargets :
           /\ Less(p1, quantile.desired_prob)
           /\ ~IsNaN(get_quantile(quantile.df, ColProbs, ColHypos, p1))
           /\ RowOf(quantile.df, get_quantile(quantile.df, ColProbs, ColHypos, p1))
                  < RowOf(quantile.df, quantile.returned[1])

\* C26: for a target probability p <= 0 get_quantile returns the hypothesis
\* of the first row of a distribution (a table with a first row whose mass
\* is a number that is not negative), also when that mass is 0.
C26_NonPositiveTargetReturnsFirstRow ==
    (/\ quantile # <<>>
     /\ GreaterEqual(Zero, quantile.desired_prob)
     /\ quantile.df[ColProbs] # <<>>
     /\ GreaterEqual(quantile.df[ColProbs][1], Zero))
    => quantile.returned = <<FromInt(quantile.df[ColHypos][1])>>

\* the quantile for the target 0 was asked of the prior of the rabbit
\* problem, where hypothesis 1 has no mass, and hypothesis 1 was returned
C26_Witness ==
    /\ quantile # <<>>
    /\ quantile.desired_prob = Zero
    /\ quantile.df[ColProbs] = global_priors
    /\ quantile.df[ColProbs][1] = Zero
    /\ quantile.returned = <<FromInt(1)>>

(***************************************************************************)
(* The estimate of pi by darts thrown at the square [-1, 1] x [-1, 1]: the *)
(* for loop that keeps running counts, and the vectorized computation.     *)
(***************************************************************************)
MaxDraws == 3

\* values x_dist.rvs() and y_dist.rvs() return: scipy.stats.uniform(-1, 2)
\* draws from [-1, 1]
DrawValues == {FromInt(-1), Zero, Frac(1, 128), Frac(3, 4)}

\* a test that leaves out the boundary of the circle
circle_accept_strict(x, y) == Less(Add(Multiply(x, x), Multiply(y, y)), One)

\* circle_accept(x, y): np.square(x) + np.square(y) <= 1
circle_accept(x, y) == GreaterEqual(One, Add(Multiply(x, x), Multiply(y, y)))

\* z_accept.cumsum() of z_accept = circle_accept(x_draw, y_draw) on arrays
cumsum(xs, ys) ==
    [k \in 1..Len(xs) |->
         Cardinality({j \in 1..k : circle_accept(xs[j], ys[j])})]

\* a computation that divides each count by the number of draws it counts
pi_estimate_running(xs, ys) ==
    [k \in 1..Len(xs) |->
         Multiply(FromInt(4), TrueDivide(FromInt(cumsum(xs, ys)[k]), FromInt(k)))]

\* pi_estimate = 4 * (count_accepted / n_draws) of the vectorized cell, for
\* the arrays x_draw and y_draw of n_draws values each
pi_estimate(xs, ys) ==
    LET n_draws == Len(xs)
    IN  [k \in 1..n_draws |->
             Multiply(FromInt(4),
                      TrueDivide(FromInt(cumsum(xs, ys)[k]), FromInt(n_draws)))]

\* the cell of the loop has set its three variables and has drawn nothing
InitDay19 ==
    /\ count_accepted = 0
    /\ count_total = 0
    /\ computed_pis = <<>>
    /\ x_draws = <<>>
    /\ y_draws = <<>>
    /\ figures = <<>>
    /\ frame = <<>>
    /\ NoEstimator
    /\ NoTable
    /\ NoDataset

\* one iteration of the for loop, with the two values drawn in it
Iteration(x_draw, y_draw) ==
    /\ count_total < MaxDraws
    /\ x_draws' = Append(x_draws, x_draw)
    /\ y_draws' = Append(y_draws, y_draw)
    /\ count_total' = count_total + 1
    /\ count_accepted' = IF circle_accept(x_draw, y_draw)
                         THEN count_accepted + 1
                         ELSE count_accepted
    /\ computed_pis' = Append(computed_pis,
                              Multiply(FromInt(4),
                                       TrueDivide(FromInt(count_accepted'),
                                                  FromInt(count_total'))))
    /\ UNCHANGED <<hypotheses, prior_dist, priors, posteriors, calls, before,
                   raised, returned, table_vars, day21_vars, figures, frame>>

NextDay19 == \E x_draw \in DrawValues, y_draw \in DrawValues : Iteration(x_draw, y_draw)

SpecDay19 == InitDay19 /\ [][NextDay19]_vars

\* how many of the first k draws lie in the closed unit disc, the sum of
\* the two squares being the float64 sum the test compares with 1
AcceptedAmong(k) ==
    Cardinality({j \in 1..k :
                     LET s == Add(Multiply(x_draws[j], x_draws[j]),
                                  Multiply(y_draws[j], y_draws[j]))
                     IN  Less(s, One) \/ s = One})

\* C27: after every iteration of the loop, 0 <= count_accepted <=
\* count_total, len(computed_pis) = count_total, count_total is the number
\* of iterations made (it grows by 1 per iteration), count_accepted is the
\* number of draws made with x^2 + y^2 <= 1, the boundary included (it
\* grows by 1 exactly with such a draw), and every stored estimate is
\* 4 * (accepted so far / total so far) and lies in [0, 4].
C27_LoopInvariants ==
    /\ 0 <= count_accepted
    /\ count_accepted <= count_total
    /\ Len(computed_pis) = count_total
    /\ count_total = Len(x_draws)
    /\ count_total = Len(y_draws)
    /\ count_accepted = AcceptedAmong(count_total)
    /\ \A k \in DOMAIN computed_pis :
           /\ computed_pis[k] = Multiply(FromInt(4),
                                         TrueDivide(FromInt(AcceptedAmong(k)), FromInt(k)))
           /\ GreaterEqual(computed_pis[k], Zero)
           /\ GreaterEqual(FromInt(4), computed_pis[k])

\* three iterations were made: a draw on the boundary of the circle was
\* accepted, a draw outside was not, and the estimates stored differ
C27_Witness ==
    /\ count_total = 3
    /\ count_accepted = 2
    /\ \E j \in 1..3 : x_draws[j] = FromInt(-1) /\ y_draws[j] = Zero
    /\ \E j \in 1..3 : x_draws[j] = Frac(3, 4) /\ y_draws[j] = Frac(3, 4)
    /\ computed_pis[3] # computed_pis[2]
    /\ Less(Zero, computed_pis[3]) /\ Less(computed_pis[3], FromInt(4))

\* C28: for the same sequence of n draws the vectorized computation and
\* the for loop give the same final estimate, and their k-th running
\* estimates, k < n, differ whenever one of the first k draws was accepted.
C28_VectorizedAgreesAtTheEndOnly ==
    count_total >= 1 =>
        LET n == count_total
        IN  /\ Len(pi_estimate(x_draws, y_draws)) = n
            /\ pi_estimate(x_draws, y_draws)[n] = computed_pis[n]
            /\ \A k \in 1..(n - 1) :
                   AcceptedAmong(k) >= 1
                       => pi_estimate(x_draws, y_draws)[k] # computed_pis[k]

\* three draws were made, the first of them accepted: the two computations
\* end in the same estimate, not 0, and differ in the first two
C28_Witness ==
    /\ count_total = 3
    /\ AcceptedAmong(1) = 1
    /\ computed_pis[3] = pi_estimate(x_draws, y_draws)[3]
    /\ Less(Zero, computed_pis[3])
    /\ computed_pis[1] # pi_estimate(x_draws, y_draws)[1]
    /\ computed_pis[2] # pi_estimate(x_draws, y_draws)[2]

(***************************************************************************)
(* plot.  The method reads the notebook's variables hypotheses and priors  *)
(* (not the attributes of self) and the list self.posteriors, and hands    *)
(* them to matplotlib, which draws and assigns to none of them.            *)
(***************************************************************************)
MaxPlots == 2

\* a plot that rescales what it shows in place: item *= 100 on every
\* snapshot, the first of which is the array self.priors
PlotInPercent ==
    /\ Len(figures) < MaxPlots
    /\ posteriors' = [idx \in DOMAIN posteriors |->
                          [j \in DOMAIN posteriors[idx] |->
                               Multiply(posteriors[idx][j], FromInt(100))]]
    /\ priors' = posteriors'[1]
    /\ figures' = Append(figures,
                         [scatter |-> [x |-> global_hypotheses, y |-> global_priors],
                          lines   |-> [idx \in DOMAIN posteriors |->
                                           [x     |-> global_hypotheses,
                                            y     |-> posteriors'[idx],
                                            label |-> idx - 1]]])
    /\ raised' = "none"
    /\ returned' = <<>>
    /\ UNCHANGED <<hypotheses, prior_dist, calls, before, table_vars, day21_vars,
                   day19_vars, frame>>

\* BayesianEstimation.plot: a scatter of the notebook's priors and one line
\* per snapshot, labelled "Posterior idx"; matplotlib raises when a
\* snapshot has not the length of the notebook's hypotheses
Plot ==
    /\ Len(figures) < MaxPlots
    /\ IF \A idx \in DOMAIN posteriors : Len(posteriors[idx]) = Len(global_hypotheses)
       THEN /\ figures' = Append(figures,
                                 [scatter |-> [x |-> global_hypotheses,
                                               y |-> global_priors],
                                  lines   |-> [idx \in DOMAIN posteriors |->
                                                   [x     |-> global_hypotheses,
                                                    y     |-> posteriors[idx],
                                                    label |-> idx - 1]]])
            /\ raised' = "none"
       ELSE /\ figures' = Append(figures, <<>>)
            /\ raised' = "ValueError"
    /\ returned' = <<>>
    /\ UNCHANGED <<hypotheses, prior_dist, priors, posteriors, calls, before,
                   table_vars, day21_vars, day19_vars, frame>>

NextPlot ==
    \/ Update(day2_likelihoods(hypotheses))
    \/ Update(day3_likelihoods(hypotheses))
    \/ Plot

SpecPlot == InitRabbit /\ [][NextPlot]_vars

\* the history that the update calls cs, made in order on history and
\* nothing else, leave
RECURSIVE Replay(_, _)
Replay(history, cs) ==
    IF cs = <<>> THEN history
    ELSE Replay(IF Head(cs).raised = "none"
                THEN Updated(history, Head(cs).likelihood)
                ELSE history,
                Tail(cs))

\* C29: plot is a read-only consumer.  However many times it was called and
\* between whichever updates, the hypotheses and the priors are those of
\* the construction, every snapshot a call of plot has drawn is still the
\* snapshot stored at its index, and the history, the results of the
\* updates made after a call of plot included, is the one the updates
\* alone produce.
C29_PlotReadOnly ==
    /\ hypotheses = Arange(ArangeStop - 1)
    /\ priors = Pmf(prior_dist, hypotheses)
    /\ posteriors = Replay(<<Pmf(prior_dist, hypotheses)>>, calls)
    /\ \A f \in DOMAIN figures :
           figures[f] # <<>> =>
               \A idx \in DOMAIN figures[f].lines :
                   /\ idx \in DOMAIN posteriors
                   /\ figures[f].lines[idx].y = posteriors[idx]
    /\ (calls # <<>> /\ returned # <<>>) => returned = <<posteriors[Len(posteriors)]>>

\* in the rabbit problem plot was called between the two updates, where it
\* drew two snapshots, and the second update stored day3_posteriors
C29_Witness ==
    /\ RabbitProblem
    /\ Len(figures) >= 1
    /\ figures[1] # <<>>
    /\ Len(figures[1].lines) = 2
    /\ Len(calls) = 2
    /\ calls[1].likelihood = day2_likelihoods(hypotheses)
    /\ calls[2].likelihood = day3_likelihoods(hypotheses)
    /\ posteriors = <<global_priors, day2_posteriors, day3_posteriors>>
    /\ returned = <<day3_posteriors>>

(***************************************************************************)
(* update and get_quantile statement by statement.  frame is the call in   *)
(* progress: its position pc (the source line it is about to execute, or   *)
(* "done"), its arguments and local variables, and a record of the work    *)
(* done: for update the positions each array operation has gone over, for  *)
(* get_quantile the rows the for loop has visited.  One call runs at a     *)
(* time.                                                                   *)
(***************************************************************************)
\* the likelihood arrays passed to update here: one of each shape
StepLikelihoods ==
    {l \in Likelihoods :
         \A i \in DOMAIN l.data : l.data[i] = IF i = 1 THEN Frac(1, 3) ELSE One}

\* no call is in progress
Idle == IF frame = <<>> THEN TRUE ELSE frame.pc = "done"

\* a call is in progress
Running == frame # <<>> /\ frame.pc # "done"

\* my_rabbit_problem.update(likelihood) is called
CallUpdate(likelihood) ==
    /\ Idle
    /\ Len(calls) < MaxUpdates
    /\ frame' = [op |-> "update", pc |-> "114", likelihood |-> likelihood,
                 passes |-> <<>>]
    /\ before' = posteriors
    /\ raised' = "none"
    /\ returned' = <<>>
    /\ UNCHANGED <<hypotheses, prior_dist, priors, posteriors, calls, table_vars,
                   day21_vars, day19_vars, figures>>

\* self.posteriors.append(self.posteriors[-1] * likelihood)
Line114 ==
    /\ Running
    /\ frame.op = "update"
    /\ frame.pc = "114"
    /\ IF Broadcastable(posteriors[Len(posteriors)], frame.likelihood)
       THEN LET product == NdMultiply(posteriors[Len(posteriors)], frame.likelihood)
            IN  /\ posteriors' = Append(posteriors, product)
                /\ frame' = [frame EXCEPT !.pc = "115",
                                          !.passes = Append(@, DOMAIN product)]
                /\ UNCHANGED <<raised, calls>>
       ELSE /\ raised' = "ValueError"
            /\ calls' = Append(calls, [likelihood |-> frame.likelihood,
                                       raised |-> "ValueError"])
            /\ frame' = [frame EXCEPT !.pc = "done"]
            /\ UNCHANGED posteriors
    /\ UNCHANGED <<hypotheses, prior_dist, priors, before, returned, table_vars,
                   day21_vars, day19_vars, figures>>

\* self.posteriors[-1] = self.posteriors[-1] / self.posteriors[-1].sum()
Line115 ==
    /\ Running
    /\ frame.op = "update"
    /\ frame.pc = "115"
    /\ LET last == posteriors[Len(posteriors)]
       IN  /\ posteriors' = [posteriors EXCEPT ![Len(posteriors)] =
                                 NdTrueDivide(last, NdSum(last))]
           /\ frame' = [frame EXCEPT !.pc = "116",
                                     !.passes = @ \o <<DOMAIN last, DOMAIN last>>]
    /\ UNCHANGED <<hypotheses, prior_dist, priors, calls, before, raised, returned,
                   table_vars, day21_vars, day19_vars, figures>>

\* return self.posteriors[-1]
Line116 ==
    /\ Running
    /\ frame.op = "update"
    /\ frame.pc = "116"
    /\ returned' = <<Returned(posteriors)>>
    /\ calls' = Append(calls, [likelihood |-> frame.likelihood, raised |-> "none"])
    /\ frame' = [frame EXCEPT !.pc = "done"]
    /\ UNCHANGED <<hypotheses, prior_dist, priors, posteriors, before, raised,
                   table_vars, day21_vars, day19_vars, figures>>

\* get_quantile(df_rabbits, "probabilities", "number of rabbits",
\* desired_prob) is called and sets acc_probs = 0.0
CallGetQuantile(desired_prob) ==
    /\ Idle
    /\ df_rabbits # <<>>
    /\ frame' = [op |-> "get_quantile", pc |-> "146", desired_prob |-> desired_prob,
                 acc_probs |-> Zero, visited |-> <<>>]
    /\ raised' = "none"
    /\ returned' = <<>>
    /\ UNCHANGED <<hypotheses, prior_dist, priors, posteriors, calls, before,
                   table_vars, day21_vars, day19_vars, figures>>

\* one iteration of the for loop over df_posterior.iterrows(): the next row
\* is added to acc_probs and, if the target is reached, its hypothesis is
\* returned
IterrowsNext ==
    /\ Running
    /\ frame.op = "get_quantile"
    /\ Len(frame.visited) < Len(df_rabbits[ColProbs])
    /\ LET i   == Len(frame.visited) + 1
           acc == Add(frame.acc_probs, df_rabbits[ColProbs][i])
       IN  IF GreaterEqual(acc, frame.desired_prob)
           THEN /\ frame' = [frame EXCEPT !.pc = "done", !.acc_probs = acc,
                                          !.visited = Append(@, i)]
                /\ returned' = <<FromInt(df_rabbits[ColHypos][i])>>
                /\ quantile' = [df           |-> df_rabbits,
                                desired_prob |-> frame.desired_prob,
                                raised       |-> "none",
                                returned     |-> returned']
           ELSE /\ frame' = [frame EXCEPT !.acc_probs = acc,
                                          !.visited = Append(@, i)]
                /\ UNCHANGED <<returned, quantile>>
    /\ UNCHANGED <<hypotheses, prior_dist, priors, posteriors, calls, before, raised,
                   df_rabbits, written, day21_vars, day19_vars, figures>>

\* the loop has gone over every row: return np.nan
ReturnNaN ==
    /\ Running
    /\ frame.op = "get_quantile"
    /\ Len(frame.visited) = Len(df_rabbits[ColProbs])
    /\ frame' = [frame EXCEPT !.pc = "done"]
    /\ returned' = <<NaN>>
    /\ quantile' = [df           |-> df_rabbits,
                    desired_prob |-> frame.desired_prob,
                    raised       |-> "none",
                    returned     |-> returned']
    /\ UNCHANGED <<hypotheses, prior_dist, priors, posteriors, calls, before, raised,
                   df_rabbits, written, day21_vars, day19_vars, figures>>

\* the statement the call in progress executes next
Step == Line114 \/ Line115 \/ Line116 \/ IterrowsNext \/ ReturnNaN

NextSteps ==
    \/ \E likelihood \in StepLikelihoods : CallUpdate(likelihood)
    \/ Idle /\ FromDict
    \/ \E desired_prob \in DesiredProbs : CallGetQuantile(desired_prob)
    \/ Step

SpecSteps == Init /\ [][NextSteps]_vars

\* the number of statements the call in progress has yet to execute, at
\* most: the statements left of update, the rows left to the loop of
\* get_quantile and its return
Remaining ==
    IF ~Running THEN 0
    ELSE IF frame.op = "update"
    THEN (IF frame.pc = "114" THEN 3 ELSE IF frame.pc = "115" THEN 2 ELSE 1)
    ELSE Len(df_rabbits[ColProbs]) - Len(frame.visited) + 1

\* every statement executed brings the call in progress nearer to its end
StepsDecreaseRemaining == [][Step => Remaining' < Remaining]_vars

\* a call in progress has a statement to execute: it waits for nothing
RunningCanStep ==
    Running
    => \/ frame.op = "update" /\ frame.pc \in {"114", "115", "116"}
       \/ /\ frame.op = "get_quantile"
          /\ frame.pc = "146"
          /\ Len(frame.visited) <= Len(df_rabbits[ColProbs])

\* a finished call of update has left what Update leaves, and a finished
\* call of get_quantile has returned what get_quantile returns
StepsAgreeWithCalls ==
    (frame # <<>> /\ frame.pc = "done")
    => /\ (frame.op = "update" /\ calls[Len(calls)].raised = "none")
              => /\ posteriors = Updated(before, frame.likelihood)
                 /\ returned # <<>> => returned = <<Returned(posteriors)>>
       /\ (frame.op = "update" /\ calls[Len(calls)].raised # "none")
              => posteriors = before
       /\ frame.op = "get_quantile"
              => quantile.returned = <<get_quantile(quantile.df, ColProbs, ColHypos,
                                                    frame.desired_prob)>>

\* C30: every operation finishes within one pass.  Each array operation of
\* update goes over the positions of the hypothesis set, each once, and
\* over nothing else; the scan of get_quantile visits no row twice and no
\* more rows than the distribution has, and when it has finished it has
\* returned a hypothesis or the not-found value.
C30_OnePassOverHypotheses ==
    frame # <<>> =>
        /\ frame.op = "update"
               => \A k \in DOMAIN frame.passes : frame.passes[k] = DOMAIN hypotheses
        /\ frame.op = "get_quantile"
               => /\ Len(frame.visited) <= Len(df_rabbits[ColProbs])
                  /\ \A a \in DOMAIN frame.visited, b \in DOMAIN frame.visited :
                         a # b => frame.visited[a] # frame.visited[b]
                  /\ frame.pc = "done"
                         => \/ returned = <<NaN>>
                            \/ \E i \in DOMAIN df_rabbits[ColHypos] :
                                   returned = <<FromInt(df_rabbits[ColHypos][i])>>

=============================================================================
